---- MODULE Spec2Model ----
(***************************************************************************)
(* Movies Desktop (src/main.py): the Movies table, the ranking computed by *)
(* MainWindow.fetch_all_movies, and the modal-dialog workflow of           *)
(* MainWindow.add_movie / edit_movie / delete_selected.                    *)
(*                                                                         *)
(* Conventions.                                                            *)
(*  - A rating is a number of tenths (75 is 7.5): EditDialog's spin box    *)
(*    has one decimal, so every stored rating is a multiple of 0.1.        *)
(*  - Python's None and "" are both written "" wherever the code only      *)
(*    tests truthiness (`not self.api_key`, `x or "0000"`, `x or ""`).     *)
(*  - Table rows are numbered from 1; cur = 0 is Qt's currentRow() = -1.   *)
(*  - NoMovie (0) is Python's None for an Optional[Movie].                 *)
(*  - Message boxes are modal and have no effect but being shown: msg is   *)
(*    the last box shown by the handler that ran last.                     *)
(***************************************************************************)
EXTENDS Integers, Sequences, FiniteSets, TLC

\* ---------------------------------------------------------------- bounds
MaxId == 3          \* rowids handed out by the table stay within 1..MaxId

\* ------------------------------------------------------- program constants
TMDB_IMAGE_BASE == "https://image.tmdb.org/t/p/w500"
SpinMin == 0        \* QDoubleSpinBox.setRange(0.0, 10.0), in tenths
SpinMax == 100
NoMovie == 0

\* ------------------------------------------------------------ the inputs
\* What the user can type or do, and what TMDB can answer.
KeyInputs == {"", " ", " k1 "}
QueryInputs == {" ", "a"}
ReviewInputs == {" ", " ok "}
RatingInputs == {-5, 75, 105}

\* str.strip() on the strings above
Strip(s) ==
  CASE s = " " -> ""
    [] s = " k1 " -> "k1"
    [] s = " ok " -> "ok"
    [] OTHER -> s

\* The TMDB catalogue: 1 and 2 are two films with the same title, 2 has no
\* release date, overview or poster.
D1999 == <<"1", "9", "9", "9", "-", "0", "3", "-", "3", "1">>
D2001 == <<"2", "0", "0", "1", "-", "1", "2", "-", "1", "9">>
D2010 == <<"2", "0", "1", "0">>
TmdbIds == 1..4
Tmdb(i) ==
  CASE i = 1 -> [id |-> 1, title |-> "A", release_date |-> D1999, overview |-> "o1", poster_path |-> "/p1"]
    [] i = 2 -> [id |-> 2, title |-> "A", release_date |-> <<>>, overview |-> "", poster_path |-> ""]
    [] i = 3 -> [id |-> 3, title |-> "B", release_date |-> D2001, overview |-> "o3", poster_path |-> "/p3"]
    [] OTHER -> [id |-> 4, title |-> "C", release_date |-> D2010, overview |-> "o4", poster_path |-> "/p4"]
ResultLists == {<<>>, <<1, 2>>, <<3, 4>>}

\* ------------------------------------------------------- pure helpers
DigitVal(c) ==
  CASE c = "0" -> 0 [] c = "1" -> 1 [] c = "2" -> 2 [] c = "3" -> 3 [] c = "4" -> 4
    [] c = "5" -> 5 [] c = "6" -> 6 [] c = "7" -> 7 [] c = "8" -> 8 [] OTHER -> 9

RECURSIVE ParseInt(_)
ParseInt(cs) ==
  IF cs = <<>> THEN 0
  ELSE 10 * ParseInt(SubSeq(cs, 1, Len(cs) - 1)) + DigitVal(cs[Len(cs)])

\* int((details.get("release_date") or "0000")[:4])
YearOf(release_date) ==
  LET d == IF release_date = <<>> THEN <<"0", "0", "0", "0">> ELSE release_date
  IN ParseInt(SubSeq(d, 1, IF Len(d) < 4 THEN Len(d) ELSE 4))

\* TMDB_IMAGE_BASE + (details.get("poster_path") or "")
ImgUrl(poster_path) == <<TMDB_IMAGE_BASE, poster_path>>

\* Movie(title=..., year=..., description=..., img_url=..., rating=0.0, ranking=0, review="")
NewMovie(details) ==
  [title |-> details.title,
   year |-> YearOf(details.release_date),
   description |-> details.overview,
   img_url |-> ImgUrl(details.poster_path),
   rating |-> 0, ranking |-> 0, review |-> ""]

\* QDoubleSpinBox with setRange(0.0, 10.0): setValue bounds the value
SpinBound(v) == IF v < SpinMin THEN SpinMin ELSE IF v > SpinMax THEN SpinMax ELSE v

\* ------------------------------------------------------------- the state
VARIABLES
  store,        \* the Movies table: rowid -> row
  api_key,      \* MainWindow.api_key
  cfg,          \* movies_config.json: the value under "API_KEY_TMDB"
  pc,           \* where the main window's event handling stands
  table,        \* the rows of MainWindow.table, as refresh() filled them
  cur,          \* table.currentRow(), 1-based, 0 for none
  results,      \* SearchDialog.results: the TMDB ids listed
  added_movie,  \* SearchDialog.added_movie
  editing,      \* EditDialog.movie, or the row delete_selected asks about
  inAdd,        \* edit_movie was called by add_movie (line 571)
  msg           \* the message box shown last

vars == <<store, api_key, cfg, pc, table, cur, results, added_movie, editing, inAdd, msg>>

Ids(s) == DOMAIN s

\* session.query(Movie).filter_by(title=t).first()
FindByTitle(s, t) ==
  LET hits == {i \in Ids(s) : s[i].title = t}
  IN IF hits = {} THEN NoMovie ELSE CHOOSE i \in hits : \A j \in hits : i <= j

\* The rowid SQLite gives an INSERT into an INTEGER PRIMARY KEY table:
\* one more than the largest rowid in use.
NextRowid(s) ==
  IF Ids(s) = {} THEN 1 ELSE 1 + CHOOSE i \in Ids(s) : \A j \in Ids(s) : j <= i

\* session.add(new_movie); session.commit()
Insert(s, row) ==
  [i \in Ids(s) \cup {NextRowid(s)} |-> IF i \in Ids(s) THEN s[i] ELSE row]

\* a delete that removes the oldest row in place of the one asked for
DeleteOldest(s, id) ==
  [i \in Ids(s) \ {CHOOSE k \in Ids(s) : \A j \in Ids(s) : k <= j} |-> s[i]]

\* session.delete(m); session.commit()
Delete(s, id) == [i \in Ids(s) \ {id} |-> s[i]]

\* ORDER BY rating ASC in place of DESC
OrderPosAscending(s, i) ==
  1 + Cardinality({j \in Ids(s) : \/ s[j].rating < s[i].rating
                                   \/ (s[j].rating = s[i].rating /\ j < i)})

\* a sort that puts the later of two rows with equal ratings first
OrderPosLatestFirst(s, i) ==
  1 + Cardinality({j \in Ids(s) : \/ s[j].rating > s[i].rating
                                   \/ (s[j].rating = s[i].rating /\ j > i)})

\* The position of row i in `ORDER BY rating DESC`. SQLite scans the table in
\* rowid order and sorts the scan on the key alone, which leaves rows with
\* equal keys in scan order.
OrderPos(s, i) ==
  1 + Cardinality({j \in Ids(s) : \/ s[j].rating > s[i].rating
                                   \/ (s[j].rating = s[i].rating /\ j < i)})

\* session.query(Movie).order_by(Movie.rating.desc()).all(), as rowids
Ordered(s) ==
  [k \in 1..Cardinality(Ids(s)) |-> CHOOSE i \in Ids(s) : OrderPos(s, i) = k]

\* fetch_all_movies: the table after `m.ranking = i` for each and commit
Reranked(s) ==
  LET movies == Ordered(s)
  IN [i \in Ids(s) |-> [s[i] EXCEPT !.ranking = CHOOSE k \in 1..Len(movies) : movies[k] = i]]

\* fetch_all_movies: the list returned, as the rows refresh() reads
FetchAll(s) ==
  LET movies == Ordered(s)
  IN [k \in 1..Len(movies) |-> Reranked(s)[movies[k]]]

\* apply that also clears the ranking of the row it writes
ApplyClearsRanking(s, id, rating, review) ==
  [s EXCEPT ![id].rating = rating, ![id].review = Strip(review), ![id].ranking = 0]

\* EditDialog.apply
Apply(s, id, rating, review) ==
  [s EXCEPT ![id].rating = rating, ![id].review = Strip(review)]

\* current_movie()
CurrentMovie ==
  IF cur = 0 THEN NoMovie ELSE FindByTitle(store, table[cur].title)

\* table.setRowCount(n): a current row that no longer exists moves to the
\* last row left
RowAfterResize(c, n) == IF c > n THEN n ELSE c

Init ==
  /\ store = <<>>
  /\ api_key = ""
  /\ cfg = ""
  /\ pc = "idle"
  /\ table = <<>>
  /\ cur = 0
  /\ results = <<>>
  /\ added_movie = NoMovie
  /\ editing = NoMovie
  /\ inAdd = FALSE
  /\ msg = "none"

\* refresh(): fetch_all_movies, then fill the table
DoRefresh(s) ==
  /\ store' = Reranked(s)
  /\ table' = FetchAll(s)
  /\ cur' = RowAfterResize(cur, Cardinality(Ids(s)))

\* EditDialog.__init__ and dlg.exec(): the dialog opens on movie `id`
OpenEdit(id, fromAdd) ==
  /\ pc' = "edit_dlg"
  /\ editing' = id
  /\ inAdd' = fromAdd

\* SearchDialog.__init__ and dlg.exec()
OpenSearch ==
  /\ pc' = "search_dlg"
  /\ results' = <<>>
  /\ added_movie' = NoMovie

\* no dialog is left open
NoDialog ==
  /\ editing' = NoMovie
  /\ inAdd' = FALSE

\* the Refresh tool button
Refresh ==
  /\ pc = "idle"
  /\ DoRefresh(store)
  /\ msg' = "none"
  /\ UNCHANGED <<api_key, cfg, pc, results, added_movie, editing, inAdd>>

\* export_csv with a file chosen: fetch_all_movies, then one line per movie
\* (the file is FetchAll(store) under the header row)
ExportCsv ==
  /\ pc = "idle"
  /\ store' = Reranked(store)
  /\ msg' = "none"
  /\ UNCHANGED <<api_key, cfg, pc, table, cur, results, added_movie, editing, inAdd>>

\* the user clicks a row of the table
SelectRow ==
  /\ pc = "idle"
  /\ \E r \in 1..Len(table) : cur' = r
  /\ msg' = "none"
  /\ UNCHANGED <<store, api_key, cfg, pc, table, results, added_movie, editing, inAdd>>

\* add_movie without the `if not self.api_key` block
AddMovieWithoutKeyCheck ==
  /\ pc = "idle"
  /\ OpenSearch
  /\ msg' = "none"
  /\ UNCHANGED <<store, api_key, cfg, table, cur, editing, inAdd>>

\* add_movie, up to the first dialog it opens
AddMovie ==
  /\ pc = "idle"
  /\ IF api_key = ""
       THEN pc' = "key_dlg" /\ UNCHANGED <<results, added_movie>>
       ELSE OpenSearch
  /\ msg' = "none"
  /\ UNCHANGED <<store, api_key, cfg, table, cur, editing, inAdd>>

\* FirstTimeAPIKeyDialog accepted with k typed: add_movie lines 558-566
KeySave ==
  /\ pc = "key_dlg"
  /\ \E k \in KeyInputs :
       LET key == Strip(k)
       IN IF key # ""
            THEN /\ cfg' = key
                 /\ api_key' = key
                 /\ OpenSearch
            ELSE /\ pc' = "idle"
                 /\ UNCHANGED <<cfg, api_key, results, added_movie>>
  /\ msg' = "none"
  /\ UNCHANGED <<store, table, cur, editing, inAdd>>

\* FirstTimeAPIKeyDialog rejected: add_movie lines 567-568
KeyCancel ==
  /\ pc = "key_dlg"
  /\ pc' = "idle"
  /\ msg' = "none"
  /\ UNCHANGED <<store, api_key, cfg, table, cur, results, added_movie, editing, inAdd>>

\* on_search lines 200-202: tmdb_search raised
SearchFails ==
  /\ msg' = "TMDB Error"
  /\ UNCHANGED results

\* on_search lines 203-209: tmdb_search returned data
SearchReturns(data) ==
  /\ results' = data
  /\ msg' = "none"

\* SearchDialog.on_search with q in the query box
OnSearch ==
  /\ pc = "search_dlg"
  /\ \E q \in QueryInputs :
       IF Strip(q) = ""
         THEN msg' = "none" /\ UNCHANGED results
         ELSE \/ SearchFails
              \/ \E data \in ResultLists : SearchReturns(data)
  /\ UNCHANGED <<store, api_key, cfg, pc, table, cur, added_movie, editing, inAdd>>

\* on_pick that stores what it has of the movie before tmdb_details raises
PickFailsAfterInsert ==
  /\ msg' = "TMDB Error"
  /\ NextRowid(store) <= MaxId
  /\ store' = Insert(store, [NewMovie(Tmdb(2)) EXCEPT !.title = ""])
  /\ UNCHANGED <<pc, added_movie>>

\* on_pick lines 215-217: tmdb_details raised
PickFails ==
  /\ msg' = "TMDB Error"
  /\ UNCHANGED <<store, pc, added_movie>>

\* on_pick without the filter_by(title=...).first() test
PickResolvesUnchecked(details) ==
  /\ NextRowid(store) <= MaxId
  /\ store' = Insert(store, NewMovie(details))
  /\ added_movie' = NextRowid(store)
  /\ pc' = "search_accepted"
  /\ msg' = "none"

\* on_pick that overwrites the row of the same title with the new details
PickResolvesOverwrites(details) ==
  IF FindByTitle(store, details.title) # NoMovie
    THEN /\ msg' = "Exists"
         /\ store' = [store EXCEPT ![FindByTitle(store, details.title)] = NewMovie(details)]
         /\ UNCHANGED <<pc, added_movie>>
    ELSE /\ NextRowid(store) <= MaxId
         /\ store' = Insert(store, NewMovie(details))
         /\ added_movie' = NextRowid(store)
         /\ pc' = "search_accepted"
         /\ msg' = "none"

\* on_pick that closes the dialog after the "Exists" box
PickResolvesCloses(details) ==
  IF FindByTitle(store, details.title) # NoMovie
    THEN /\ msg' = "Exists"
         /\ pc' = "idle"
         /\ UNCHANGED <<store, added_movie>>
    ELSE /\ NextRowid(store) <= MaxId
         /\ store' = Insert(store, NewMovie(details))
         /\ added_movie' = NextRowid(store)
         /\ pc' = "search_accepted"
         /\ msg' = "none"

\* on_pick lines 218-231: tmdb_details returned details
PickResolves(details) ==
  IF FindByTitle(store, details.title) # NoMovie
    THEN /\ msg' = "Exists"
         /\ UNCHANGED <<store, pc, added_movie>>
    ELSE /\ NextRowid(store) <= MaxId
         /\ store' = Insert(store, NewMovie(details))
         /\ added_movie' = NextRowid(store)
         /\ pc' = "search_accepted"
         /\ msg' = "none"

\* SearchDialog.on_pick on the k-th item of the list
OnPick ==
  /\ pc = "search_dlg"
  /\ \E k \in 1..Len(results) :
       \/ PickFails
       \/ PickResolves(Tmdb(results[k]))
  /\ UNCHANGED <<api_key, cfg, table, cur, results, editing, inAdd>>

\* the user closes the SearchDialog: dlg.exec() is not Accepted
SearchReject ==
  /\ pc = "search_dlg"
  /\ pc' = "idle"
  /\ results' = <<>>
  /\ added_movie' = NoMovie
  /\ msg' = "none"
  /\ UNCHANGED <<store, api_key, cfg, table, cur, editing, inAdd>>

\* add_movie lines 570-571: dlg.exec() returned Accepted
AfterSearch ==
  /\ pc = "search_accepted"
  /\ IF added_movie # NoMovie
       THEN OpenEdit(added_movie, TRUE)
       ELSE pc' = "idle" /\ NoDialog
  /\ results' = <<>>
  /\ added_movie' = NoMovie
  /\ msg' = "none"
  /\ UNCHANGED <<store, api_key, cfg, table, cur>>

\* edit_selected
EditSelected ==
  /\ pc = "idle"
  /\ CurrentMovie # NoMovie
  /\ OpenEdit(CurrentMovie, FALSE)
  /\ msg' = "none"
  /\ UNCHANGED <<store, api_key, cfg, table, cur, results, added_movie>>

\* edit_movie lines 576-577: the user leaves v in the spin box (setValue and
\* the validator keep it within the range) and t in the text box, accepts the
\* dialog, and dlg.apply(session) runs
EditSave ==
  /\ pc = "edit_dlg"
  /\ \E v \in RatingInputs \cup {store[editing].rating} :
       \E t \in ReviewInputs \cup {store[editing].review} :
         store' = Apply(store, editing, SpinBound(v), t)
  /\ pc' = "applied"
  /\ UNCHANGED <<api_key, cfg, table, cur, results, added_movie, editing, inAdd, msg>>

\* edit_movie without its refresh() after apply
EditRefreshSkipped ==
  /\ pc = "applied"
  /\ pc' = IF inAdd THEN "add_refresh" ELSE "idle"
  /\ editing' = NoMovie
  /\ UNCHANGED <<store, table, cur, api_key, cfg, results, added_movie, inAdd, msg>>

\* edit_movie line 578: refresh() after apply, then back to the caller
EditRefresh ==
  /\ pc = "applied"
  /\ DoRefresh(store)
  /\ pc' = IF inAdd THEN "add_refresh" ELSE "idle"
  /\ editing' = NoMovie
  /\ UNCHANGED <<api_key, cfg, results, added_movie, inAdd, msg>>

\* edit_movie: the dialog is rejected, back to the caller
EditCancel ==
  /\ pc = "edit_dlg"
  /\ pc' = IF inAdd THEN "add_refresh" ELSE "idle"
  /\ editing' = NoMovie
  /\ UNCHANGED <<store, api_key, cfg, table, cur, results, added_movie, inAdd, msg>>

\* add_movie without its refresh() after edit_movie
AddRefreshSkipped ==
  /\ pc = "add_refresh"
  /\ pc' = "idle"
  /\ inAdd' = FALSE
  /\ UNCHANGED <<store, table, cur, api_key, cfg, results, added_movie, editing, msg>>

\* add_movie line 572: refresh() after edit_movie returned
AddRefresh ==
  /\ pc = "add_refresh"
  /\ DoRefresh(store)
  /\ pc' = "idle"
  /\ inAdd' = FALSE
  /\ UNCHANGED <<api_key, cfg, results, added_movie, editing, msg>>

\* delete_selected, up to the question box
DeleteSelected ==
  /\ pc = "idle"
  /\ CurrentMovie # NoMovie
  /\ pc' = "del_confirm"
  /\ editing' = CurrentMovie
  /\ msg' = "none"
  /\ UNCHANGED <<store, api_key, cfg, table, cur, results, added_movie, inAdd>>

\* delete_selected lines 588-589: the answer is Yes
DeleteYes ==
  /\ pc = "del_confirm"
  /\ store' = Delete(store, editing)
  /\ pc' = "deleted"
  /\ UNCHANGED <<api_key, cfg, table, cur, results, added_movie, editing, inAdd, msg>>

\* delete_selected line 590: refresh() after the delete
DeleteRefresh ==
  /\ pc = "deleted"
  /\ DoRefresh(store)
  /\ pc' = "idle"
  /\ editing' = NoMovie
  /\ UNCHANGED <<api_key, cfg, results, added_movie, inAdd, msg>>

\* delete_selected that deletes whatever the answer
DeleteNoDeletes ==
  /\ pc = "del_confirm"
  /\ store' = Delete(store, editing)
  /\ pc' = "idle"
  /\ editing' = NoMovie
  /\ UNCHANGED <<api_key, cfg, table, cur, results, added_movie, inAdd, msg>>

\* delete_selected: the answer is not Yes
DeleteNo ==
  /\ pc = "del_confirm"
  /\ pc' = "idle"
  /\ editing' = NoMovie
  /\ UNCHANGED <<store, api_key, cfg, table, cur, results, added_movie, inAdd, msg>>

Next ==
  \/ Refresh
  \/ ExportCsv
  \/ SelectRow
  \/ AddMovie
  \/ KeySave
  \/ KeyCancel
  \/ OnSearch
  \/ OnPick
  \/ SearchReject
  \/ AfterSearch
  \/ EditSelected
  \/ EditSave
  \/ EditRefresh
  \/ EditCancel
  \/ AddRefresh
  \/ DeleteSelected
  \/ DeleteYes
  \/ DeleteRefresh
  \/ DeleteNo

Spec == Init /\ [][Next]_vars

\* ------------------------------------------ EditDialog.apply on its own
\* apply as a function of the table, the movie and the two widget values,
\* called with values that did not go through the spin box.
RawRatings == {-5, 0, 75, 100, 105}
SomeRatings == {0, 75, 100}
SomeReviews == {"", "ok"}

\* the tables with the films 1 and 3 of the catalogue, as refresh() leaves them
ApplyStores ==
  {Reranked(Insert(Insert(<<>>, [NewMovie(Tmdb(1)) EXCEPT !.rating = r1, !.review = v1]),
                   [NewMovie(Tmdb(3)) EXCEPT !.rating = r2, !.review = v2])) :
     r1 \in SomeRatings, r2 \in SomeRatings, v1 \in SomeReviews, v2 \in SomeReviews}

InitApply ==
  /\ store \in ApplyStores
  /\ api_key = "k1"
  /\ cfg = "k1"
  /\ pc = "edit_dlg"
  /\ table = FetchAll(store)
  /\ cur \in 1..2
  /\ results = <<>>
  /\ added_movie = NoMovie
  /\ editing = FindByTitle(store, table[cur].title)
  /\ inAdd = FALSE
  /\ msg = "none"

\* dlg.apply(session) with rating in the spin box and review in the text box
ApplyCall(rating, review) ==
  /\ pc = "edit_dlg"
  /\ store' = Apply(store, editing, rating, review)
  /\ pc' = "applied"
  /\ UNCHANGED <<api_key, cfg, table, cur, results, added_movie, editing, inAdd, msg>>

ApplyAny == \E rating \in RawRatings : \E review \in ReviewInputs : ApplyCall(rating, review)

NextApply == ApplyAny

SpecApply == InitApply /\ [][NextApply]_vars

\* ------------------------------------------------------------ properties
TypeOK ==
  /\ Ids(store) \subseteq 1..MaxId
  /\ pc \in {"idle", "key_dlg", "search_dlg", "search_accepted", "edit_dlg", "applied", "add_refresh", "del_confirm", "deleted"}
  /\ cur \in 0..Len(table)

\* a step that runs refresh(), so that table' is what fetch_all_movies returned
RefreshStep == Refresh \/ EditRefresh \/ AddRefresh \/ DeleteRefresh

DistinctRatings(s) == \A i, j \in Ids(s) : i # j => s[i].rating # s[j].rating

\* rows lists every row of s once, each at the position its ranking names
ListsAll(s, rows) ==
  /\ Len(rows) = Cardinality(Ids(s))
  /\ \A i \in Ids(s) : s[i].ranking \in 1..Len(rows) /\ rows[s[i].ranking] = s[i]

\* C1: when the ratings in the table are pairwise distinct, fetch_all_movies
\* returns all N rows in strictly descending order of rating, and stores in
\* each row its 1-based position in that list, so the rankings are 1..N.
C1_RankedStrictlyDescending ==
  [][(RefreshStep /\ DistinctRatings(store'))
       => /\ ListsAll(store', table')
          /\ \A k \in 1..(Len(table') - 1) : table'[k].rating > table'[k + 1].rating
          /\ \A k \in 1..Len(table') : table'[k].ranking = k
          /\ {store'[i].ranking : i \in Ids(store')} = 1..Cardinality(Ids(store'))]_vars

\* three rows with distinct ratings, listed in the opposite of rowid order
C1_Witness ==
  /\ pc = "idle"
  /\ Ids(store) = {1, 2, 3}
  /\ store[1].rating < store[2].rating /\ store[2].rating < store[3].rating
  /\ Len(table) = 3
  /\ table[1] = store[3] /\ table[2] = store[2] /\ table[3] = store[1]

C3_TitlesUnique ==
  \A i, j \in Ids(store) : i # j => store[i].title # store[j].title

\* a second film of a title already in the table was picked and turned down
C3_Witness ==
  /\ msg = "Exists"
  /\ Cardinality(Ids(store)) >= 2
  /\ \E i \in Ids(store) : store[i].title = "A" /\ store[i].rating > 0

\* C4: picking a candidate whose title is already in the table leaves every
\* row of the table as it was, creates none, and shows the "Exists" box.
C4_DuplicateAddChangesNothing ==
  [][\A k \in 1..Len(results) :
       (/\ pc = "search_dlg"
        /\ \E i \in Ids(store) : store[i].title = Tmdb(results[k]).title
        /\ PickResolves(Tmdb(results[k]))
        /\ UNCHANGED <<api_key, cfg, table, cur, results, editing, inAdd>>)
         => (store' = store /\ msg' = "Exists" /\ added_movie' = NoMovie)]_vars

\* the remake of a film already in the table has just been turned down
C4_Witness ==
  /\ msg = "Exists"
  /\ pc = "search_dlg"
  /\ Cardinality(Ids(store)) = 1
  /\ added_movie = NoMovie

C6_LookupFailureChangesNothing ==
  [][(pc = "search_dlg" /\ msg' = "TMDB Error")
       => /\ pc' = "search_dlg"
          /\ results' = results
          /\ store' = store
          /\ added_movie' = NoMovie
          /\ table' = table]_vars

\* a lookup has failed while candidates were listed and the table had a row
C6_Witness ==
  /\ pc = "search_dlg"
  /\ msg = "TMDB Error"
  /\ results # <<>>
  /\ store # <<>>

\* C7 as claimed: once the "Exists" box has been shown the add workflow is
\* over, the SearchDialog is no longer open.
C7_DuplicateEndsWorkflow ==
  msg = "Exists" => pc # "search_dlg"

\* C7 as amended: the "Exists" box is shown, no row is added, and the
\* SearchDialog stays open on the candidates it listed.
C7_DuplicateStaysInDialog ==
  [][msg' = "Exists"
       => /\ pc' = "search_dlg"
          /\ results' = results
          /\ results' # <<>>
          /\ Ids(store') = Ids(store)
          /\ added_movie' = NoMovie]_vars

\* the "Exists" box was shown with two rows stored and two candidates listed
C7_Witness ==
  /\ msg = "Exists"
  /\ pc = "search_dlg"
  /\ Len(results) = 2
  /\ Cardinality(Ids(store)) = 2

\* C8: without an API key add_movie opens the key dialog first; from there it
\* either returns with table, key and configuration untouched, or it saves a
\* non-empty key to the configuration and opens the SearchDialog. The
\* SearchDialog is never open without a key.
C8_NeedCredential ==
  /\ [](pc \in {"search_dlg", "search_accepted"} => api_key \notin {"", " "})
  /\ [][/\ (AddMovie /\ api_key = "")
             => (pc' = "key_dlg" /\ UNCHANGED <<store, cfg, api_key>>)
        /\ pc = "key_dlg"
             => \/ pc' = "idle" /\ UNCHANGED <<store, cfg, api_key>>
                \/ /\ pc' = "search_dlg"
                   /\ api_key' \notin {"", " "}
                   /\ cfg' = api_key'
                   /\ store' = store]_vars

\* the SearchDialog is open on a key that the key dialog saved
C8_Witness ==
  /\ pc = "search_dlg"
  /\ api_key = "k1"
  /\ cfg = "k1"
  /\ results = <<>>
  /\ store = <<>>

\* C9: when on_pick has stored a new movie, the EditDialog opens on that
\* movie next, and whether it is saved or cancelled, add_movie refreshes the
\* table before it returns.
C9_AddedThenEditThenRefresh ==
  [][/\ pc' = "search_accepted" => added_movie' \in Ids(store') \ Ids(store)
     /\ pc = "search_accepted"
          => (pc' = "edit_dlg" /\ editing' = added_movie /\ inAdd' /\ store' = store)
     /\ (inAdd /\ pc = "edit_dlg") => (pc' \in {"applied", "add_refresh"} /\ inAdd')
     /\ (inAdd /\ pc = "applied") => (pc' = "add_refresh" /\ inAdd')
     /\ (inAdd /\ pc' = "idle") => (pc = "add_refresh" /\ ListsAll(store', table'))]_vars

\* the EditDialog is open, from add_movie, on a movie not ranked yet
C9_Witness ==
  /\ pc = "edit_dlg"
  /\ inAdd
  /\ editing \in Ids(store)
  /\ store[editing].ranking = 0
  /\ Len(table) < Cardinality(Ids(store))

RankingsKept == \A i \in Ids(store) \cap Ids(store') : store'[i].ranking = store[i].ranking

\* C10: only fetch_all_movies changes the ranking of a movie that stays in
\* the table: apply, the insert of on_pick and the delete leave every such
\* ranking as it was; apply also leaves title, year, description and img_url
\* of every movie as they were.
C10_OnlyFetchChangesRanking ==
  [][/\ pc \in {"edit_dlg", "search_dlg", "del_confirm"} => RankingsKept
     /\ ~RankingsKept => (RefreshStep \/ ExportCsv)
     /\ pc = "edit_dlg"
          => /\ Ids(store') = Ids(store)
             /\ \A i \in Ids(store) :
                  /\ store'[i].title = store[i].title
                  /\ store'[i].year = store[i].year
                  /\ store'[i].description = store[i].description
                  /\ store'[i].img_url = store[i].img_url
                  /\ i # editing => store'[i] = store[i]]_vars

\* apply has raised a rating above another movie's and the rankings still
\* say the opposite
C10_Witness ==
  /\ pc = "applied"
  /\ \E i, j \in Ids(store) :
       /\ store[i].rating > store[j].rating
       /\ store[i].ranking > store[j].ranking
       /\ store[j].ranking > 0

\* C11: closing a dialog without accepting it writes nothing: a SearchDialog
\* closed with no movie added leaves the table as it was, a cancelled
\* EditDialog leaves rating and review of its movie as they were, and an
\* answer other than Yes to the delete question leaves the movie in the table.
C11_DismissWritesNothing ==
  [][/\ (pc = "search_dlg" /\ pc' = "idle")
          => (store' = store /\ cfg' = cfg /\ api_key' = api_key)
     /\ (pc = "edit_dlg" /\ pc' \in {"idle", "add_refresh"})
          => /\ store' = store
             /\ store'[editing].rating = store[editing].rating
             /\ store'[editing].review = store[editing].review
     /\ (pc = "del_confirm" /\ pc' = "idle")
          => (editing \in Ids(store') /\ store' = store)
     /\ (pc = "key_dlg" /\ pc' = "idle")
          => (store' = store /\ cfg' = cfg)]_vars

\* the EditDialog opened by add_movie was cancelled: the new movie still has
\* the rating, review and ranking it was created with
C11_Witness ==
  /\ pc = "add_refresh"
  /\ \E i \in Ids(store) :
       /\ store[i].ranking = 0
       /\ store[i].rating = 0
       /\ store[i].review = ""
  /\ Cardinality(Ids(store)) = 2

\* the fields of a movie that only the user or TMDB set
SameButRanking(a, b) ==
  /\ a.title = b.title
  /\ a.year = b.year
  /\ a.description = b.description
  /\ a.rating = b.rating
  /\ a.review = b.review
  /\ a.img_url = b.img_url

\* C12: after the delete that the user confirmed, no row has the title of the
\* deleted movie, the table has exactly one row less, and every other movie
\* is still there with title, year, description, rating, review and img_url
\* as they were, also after the refresh() that ends delete_selected.
C12_DeleteRemovesExactlyOne ==
  [][/\ (pc = "del_confirm" /\ pc' = "deleted")
          => /\ \A i \in Ids(store') : store'[i].title # store[editing].title
             /\ Cardinality(Ids(store')) = Cardinality(Ids(store)) - 1
             /\ \A i \in Ids(store) \ {editing} :
                  i \in Ids(store') /\ SameButRanking(store'[i], store[i])
     /\ pc = "deleted"
          => /\ pc' = "idle"
             /\ Ids(store') = Ids(store)
             /\ \A i \in Ids(store) : SameButRanking(store'[i], store[i])
             /\ \A k \in 1..Len(table') : table'[k].title # table[cur].title]_vars

\* the second of three listed movies has been deleted and the table not
\* refreshed yet: the two others are still stored
C12_Witness ==
  /\ pc = "deleted"
  /\ Len(table) = 3
  /\ cur = 2
  /\ Cardinality(Ids(store)) = 2
  /\ \A i \in Ids(store) : store[i].title # table[2].title
  /\ \E i \in Ids(store) : store[i].title = table[1].title
  /\ \E i \in Ids(store) : store[i].title = table[3].title

\* C13: whenever the main window is idle (no dialog open, no handler
\* running), the rankings stored for the N movies are exactly 1..N, a movie
\* with a strictly higher rating has a strictly smaller ranking, and the rows
\* of the table are the stored movies in the order of their rankings.
C13_IdleIsRanked ==
  pc = "idle"
    => /\ {store[i].ranking : i \in Ids(store)} = 1..Cardinality(Ids(store))
       /\ \A i, j \in Ids(store) :
            store[i].rating > store[j].rating => store[i].ranking < store[j].ranking
       /\ Len(table) = Cardinality(Ids(store))
       /\ \A k \in 1..Len(table) :
            table[k].ranking = k /\ \E i \in Ids(store) : store[i] = table[k]

\* idle after an add, saved edits and a delete: rowid 2 is gone, and the
\* later of the two movies left is rated higher and listed first
C13_Witness ==
  /\ pc = "idle"
  /\ Ids(store) = {1, 3}
  /\ store[3].rating > store[1].rating
  /\ store[1].rating > 0
  /\ table = <<store[3], store[1]>>
  /\ store[3].ranking = 1 /\ store[1].ranking = 2
====
